---- MODULE Spec2Model ----
(***************************************************************************)
(* A model of the COMPASS Sentinel-1 CSLC workflow wrappers:               *)
(*   s1_cslc.run, s1_geo2rdr.run, s1_geocode_slc.run,                      *)
(*   s1_geocode_metadata.run / geocode_luts, and                           *)
(*   utils/lut.compute_geocoding_correction_luts.                          *)
(* The geometry engine (isce3), the burst reader (s1reader) and GDAL/h5py  *)
(* are external: a call into them is an event appended to `calls`, and     *)
(* where the call may raise, its outcome is a nondeterministic choice.     *)
(***************************************************************************)
EXTENDS Integers, Sequences, FiniteSets, TLC

\* ------------------------------------------------------------------ bounds
\* longest burst list of a run configuration
MaxBursts == 2
\* number of samples of a correction LUT
LutLen == 2

\* ------------------------------------------------------------ input domains
BurstIds == {"t064_iw1", "t064_iw2"}
Dates == {"20221117", "20221129"}
Times == {"015904"}
Pols == {"VV", "VH"}
\* burst.sensing_start is a datetime: a calendar date and a time of day
SensingStarts == [date : Dates, time : Times]
Bursts == [burst_id : BurstIds, sensing_start : SensingStarts, polarization : Pols]
BurstLists == UNION {[1..n -> Bursts] : n \in 0..MaxBursts}

ScratchRoot == "scratch"
ProductRoot == "product"

None == "None"
NoFault == "none"

\* ----------------------------------------------------------------- helpers
\* burst.sensing_start.strftime("%Y%m%d"): the date, the time of day dropped
DateStr(sensing_start) == sensing_start.date

\* id_date = (burst_id, date_str)
IdDate(b) == <<b.burst_id, DateStr(b.sensing_start)>>

\* `x in list`
InSeq(x, s) == \E k \in 1..Len(s) : s[k] = x

\* os.makedirs(path) without exist_ok: an existing leaf raises
MakedirsNoExistOk(dirs, path) ==
    IF path \in dirs
    THEN [fs |-> dirs, err |-> "FileExistsError"]
    ELSE [fs |-> dirs \cup {SubSeq(path, 1, k) : k \in 1..Len(path)}, err |-> NoFault]

\* os.makedirs(path, exist_ok=True): creates the leaf and every missing
\* parent; an existing directory is not an error
Makedirs(dirs, path) ==
    [fs |-> dirs \cup {SubSeq(path, 1, k) : k \in 1..Len(path)}, err |-> NoFault]

\* a file path: its directory, and the file name in two parts so that
\* str.replace on the suffix can be modelled
FilePath(dir, name, ext) == [dir |-> dir, name |-> name, ext |-> ext]

DirPath(dir) == FilePath(dir, "", "")

NoPath == DirPath(<<>>)

\* one entry of the trace of calls into other stages and external libraries:
\* the callee, the (burst_id, date) pair of the iteration that made the call,
\* the input and output path, and the names of the arguments supplied
Call(fn, id_date, src, out, args) ==
    [fn |-> fn, id_date |-> id_date, src |-> src, out |-> out, args |-> args]

\* a stage-level call that carries only the run configuration
StageCall(fn, args) == Call(fn, <<>>, NoPath, NoPath, args)

\* ------------------------------------------------------------ configuration
\* cfg.geogrids of the list-driven stages: one output grid per burst id, one
\* in a projected and one in the geographic coordinate system
DefaultGeogrids ==
    [id \in BurstIds |->
        [start_x |-> IF id = "t064_iw1" THEN 0 ELSE 100, start_y |-> 200,
         spacing_x |-> 5, spacing_y |-> -10,
         width |-> 2, length |-> 3,
         epsg |-> IF id = "t064_iw1" THEN 32611 ELSE 4326]]

\* EPSG codes the DEM raster may carry
DemEpsgs == {4326, 32611}

\* the seven rdr2geo layers of meta_layers, in the dict's insertion order
MetaLayerNames ==
    <<"x", "y", "z", "incidence", "local_incidence", "heading", "layover_shadow_mask">>

LayerSet == {MetaLayerNames[k] : k \in 1..Len(MetaLayerNames)}

\* the fields of the run configuration the stages read
RunConfig(is_reference, bursts, enabled, layers, compute, split_spectrum, geogrids, dem_epsg) ==
    [is_reference |-> is_reference,
     bursts |-> bursts,
     scratch_path |-> ScratchRoot,
     product_path |-> ProductRoot,
     rdr2geo_params |-> [enabled |-> enabled,
                         geocode_metadata_layers |-> layers,
                         compute |-> compute],
     split_spectrum_params |-> [enabled |-> split_spectrum],
     geogrids |-> geogrids,
     dem_epsg |-> dem_epsg]

\* ------------------------------------------------------------------- state
VARIABLES
    entry,               \* the entry point that was invoked
    cfg,                 \* the run configuration object
    arg,                 \* the other arguments and burst-reader results of the entry point
    pc,                  \* control position
    idx,                 \* position of the loop in the list it iterates
    id_dates_processed,  \* s1_geo2rdr.run: (burst_id, date) pairs processed
    fs,                  \* directories that exist
    outputs,             \* paths of the files written by the current run
    calls,               \* calls into other stages and external libraries, in order
    log,                 \* journal lines of the current run
    fault,               \* the exception that ended the run, or NoFault
    rerun,               \* TRUE once the stage was started a second time
    prev,                \* directories and outputs when the first run completed
    rasters,             \* geocoded rasters with the geotransform and EPSG set on them
    h5,                  \* datasets created in the output HDF5 container
    geo,                 \* the GeocodeFloat32 object: interpolator and geogrid
    ret                  \* value returned by compute_geocoding_correction_luts

prodVars == <<rasters, h5, geo, ret>>

vars == <<entry, cfg, arg, pc, idx, id_dates_processed, fs, outputs, calls, log,
          fault, rerun, prev, rasters, h5, geo, ret>>

\* an exception that is recorded while the loop carries on
RaiseAndContinue(f) == [pc |-> pc, fault |-> f]

\* what a raised exception does to the run: nothing catches it in this code
Raise(f) == [pc |-> "raised", fault |-> f]

\* directories a run of s1_geo2rdr.run may create for a burst list
Geo2rdrTargets(bursts) ==
    UNION {{<<ScratchRoot, bursts[k].burst_id>>,
            <<ScratchRoot, bursts[k].burst_id, DateStr(bursts[k].sensing_start)>>}
           : k \in 1..Len(bursts)}

\* the two roots exist; below them any parent-closed set of directories
RootDirs == {<<ScratchRoot>>, <<ProductRoot>>}

ParentClosed(dirs) ==
    RootDirs \cup UNION {{SubSeq(d, 1, k) : k \in 1..Len(d)} : d \in dirs}

NoArg == [burst |-> "n/a"]

InitCommon ==
    /\ idx = 1
    /\ id_dates_processed = <<>>
    /\ outputs = {}
    /\ calls = <<>>
    /\ log = <<>>
    /\ fault = NoFault
    /\ rerun = FALSE
    /\ prev = [fs |-> {}, outputs |-> {}]
    /\ rasters = {}
    /\ h5 = {}
    /\ geo = [data_interpolator |-> "default", geogrid |-> <<>>]
    /\ ret = <<>>

\* python -m compass.s1_cslc: any burst list, reference or secondary
InitCslc ==
    /\ entry = "s1_cslc"
    /\ \E ref \in BOOLEAN, bl \in BurstLists :
          cfg = RunConfig(ref, bl, FALSE, FALSE, {}, FALSE, DefaultGeogrids, 4326)
    /\ arg = NoArg
    /\ pc = "cslc_run"
    /\ fs = RootDirs

\* python -m compass.s1_geo2rdr: any burst list, any prior directory state
InitGeo2rdr ==
    /\ entry = "s1_geo2rdr"
    /\ \E bl \in BurstLists :
          /\ cfg = RunConfig(FALSE, bl, FALSE, FALSE, {}, FALSE, DefaultGeogrids, 4326)
          /\ \E present \in SUBSET Geo2rdrTargets(bl) : fs = ParentClosed(present)
    /\ arg = NoArg
    /\ pc = "geo2rdr_run"

\* leaf directories a run of s1_geocode_slc.run ensures for a burst list
GeocodeSlcTargets(bursts) ==
    UNION {{<<ProductRoot, bursts[k].burst_id, DateStr(bursts[k].sensing_start)>>,
            <<ScratchRoot, bursts[k].burst_id, DateStr(bursts[k].sensing_start)>>}
           : k \in 1..Len(bursts)}

\* python -m compass.s1_geocode_slc: any burst list, any feature flags; of a
\* burst's two directories none, the scratch one (left by a radar-geometry
\* stage) or both (left by this stage) exist; arg.phase_correction is what
\* is_eap_correction_necessary(burst.ipf_version) reports for the bursts' IPF
InitGeocodeSlc ==
    /\ entry = "s1_geocode_slc"
    /\ \E bl \in BurstLists, enabled, layers, split \in BOOLEAN :
          /\ cfg = RunConfig(FALSE, bl, enabled, layers, {}, split, DefaultGeogrids,
                             4326)
          /\ \E present \in SUBSET GeocodeSlcTargets(bl) :
                /\ \A d \in present :
                      d[1] = ProductRoot => <<ScratchRoot, d[2], d[3]>> \in present
                /\ fs = ParentClosed(present)
    /\ \E phase_correction \in BOOLEAN : arg = [phase_correction |-> phase_correction]
    /\ pc = "slc_run"

\* output grids of the single-burst entry points
GridSizes == {1, 2, 3}

GeoGrids ==
    [start_x : {100}, start_y : {200}, spacing_x : {5}, spacing_y : {-10},
     width : GridSizes, length : GridSizes, epsg : {32611}]

DecFactors == {1, 2, 3}

\* a direct call of s1_geocode_metadata.run(cfg, burst, fetch_from_scratch) on
\* any burst and any combination of the compute_* flags, or the module's
\* command line, which calls run(cfg)
InitGeocodeMetadata ==
    /\ entry \in {"s1_geocode_metadata.run", "s1_geocode_metadata.__main__"}
    /\ \E burst \in Bursts, compute \in SUBSET LayerSet, dem_epsg \in DemEpsgs,
          fetch \in BOOLEAN :
          /\ cfg = RunConfig(FALSE, <<burst>>, TRUE, TRUE, compute, FALSE,
                             DefaultGeogrids, dem_epsg)
          /\ arg = [burst |-> burst,
                    fetch_from_scratch |-> fetch,
                    supplied |-> IF entry = "s1_geocode_metadata.run"
                                 THEN {"cfg", "burst", "fetch_from_scratch"}
                                 ELSE {"cfg"}]
    /\ entry = "s1_geocode_metadata.__main__" => ~arg.fetch_from_scratch
    /\ pc = "meta_call"
    /\ fs = RootDirs

\* geocode_calibration_luts / geocode_noise_luts(geo_burst_h5, burst, cfg,
\* dec_factor) on any burst, output grid and decimation factor
InitGeocodeLuts ==
    /\ entry \in {"geocode_calibration_luts", "geocode_noise_luts"}
    /\ \E burst \in Bursts, grid \in GeoGrids, dec_factor \in DecFactors,
          dem_epsg \in DemEpsgs :
          /\ cfg = RunConfig(FALSE, <<burst>>, FALSE, FALSE, {}, FALSE,
                             [DefaultGeogrids EXCEPT ![burst.burst_id] = grid],
                             dem_epsg)
          /\ arg = [burst |-> burst, dec_factor |-> dec_factor,
                    dst_group_path |-> "", item_dict |-> <<>>]
    /\ pc = "luts_call"
    /\ fs = RootDirs

\* correction LUTs the burst reader may return: grid and samples
LutValues == {0, 1}

LutData == [1..LutLen -> LutValues]

Lut2ds ==
    [x_start : {0, 7}, y_start : {3}, x_spacing : {1, 2}, y_spacing : {1, 2},
     data : LutData]

\* files present on disk when compute_geocoding_correction_luts runs
ExistingFiles == {"dem.tif"}

DemPaths == {None, "dem.tif", "missing_dem.tif"}

\* compute_geocoding_correction_luts(burst, dem_path=...) for any dem_path and
\* any LUTs returned by the burst's bistatic_delay,
\* geometrical_and_steering_doppler and az_fm_rate_mismatch_mitigation
InitLut ==
    /\ entry = "compute_geocoding_correction_luts"
    /\ cfg = RunConfig(FALSE, <<>>, FALSE, FALSE, {}, FALSE, DefaultGeogrids, 4326)
    /\ \E dem_path \in DemPaths, bistatic_delay \in Lut2ds, doppler \in LutData,
          az_fm_mismatch \in LutData :
          arg = [dem_path |-> dem_path,
                 bistatic_delay |-> bistatic_delay,
                 geometrical_and_steering_doppler |->
                     [bistatic_delay EXCEPT !.data = doppler],
                 az_fm_mismatch |-> [bistatic_delay EXCEPT !.data = az_fm_mismatch]]
    /\ pc = "lut_call"
    /\ fs = RootDirs

Init ==
    /\ InitCommon
    /\ \/ InitCslc
       \/ InitGeo2rdr
       \/ InitGeocodeSlc
       \/ InitGeocodeMetadata
       \/ InitGeocodeLuts
       \/ InitLut

\* ------------------------------------------------------------ s1_cslc.run
\* the branch taken with the sense of the flag inverted
RunsReferenceInverted(c) == ~c.is_reference

\* `if cfg.is_reference:`
RunsReference(c) == c.is_reference

\* if cfg.is_reference: s1_rdr2geo.run(cfg)
CslcReference ==
    /\ pc = "cslc_run"
    /\ RunsReference(cfg)
    /\ calls' = Append(calls, StageCall("s1_rdr2geo.run", {"cfg"}))
    /\ \E ok \in BOOLEAN :
          IF ok THEN /\ pc' = "done"
                     /\ fault' = fault
                ELSE /\ pc' = Raise("EngineError").pc
                     /\ fault' = Raise("EngineError").fault
    /\ UNCHANGED <<prodVars, entry, cfg, arg, idx, id_dates_processed, fs, outputs, log,
                   rerun, prev>>

\* else: s1_geo2rdr.run(cfg) is entered
CslcSecondary ==
    /\ pc = "cslc_run"
    /\ ~RunsReference(cfg)
    /\ calls' = Append(calls, StageCall("s1_geo2rdr.run", {"cfg"}))
    /\ pc' = "geo2rdr_run"
    /\ UNCHANGED <<prodVars, entry, cfg, arg, idx, id_dates_processed, fs, outputs, log,
                   fault, rerun, prev>>

\* s1_resample.run(cfg), the statement after s1_geo2rdr.run(cfg) returned
CslcResample ==
    /\ pc = "cslc_resample"
    /\ calls' = Append(calls, StageCall("s1_resample.run", {"cfg"}))
    /\ \E ok \in BOOLEAN :
          IF ok THEN /\ pc' = "done"
                     /\ fault' = fault
                ELSE /\ pc' = Raise("EngineError").pc
                     /\ fault' = Raise("EngineError").fault
    /\ UNCHANGED <<prodVars, entry, cfg, arg, idx, id_dates_processed, fs, outputs, log,
                   rerun, prev>>

\* ---------------------------------------------------------- s1_geo2rdr.run
\* the journal line, the common initialisations and the empty pair list
Geo2rdrStart ==
    /\ pc = "geo2rdr_run"
    /\ log' = Append(log, "Starting s1_geo2rdr burst")
    /\ id_dates_processed' = <<>>
    /\ idx' = 1
    /\ pc' = "geo2rdr_loop"
    /\ UNCHANGED <<prodVars, entry, cfg, arg, fs, outputs, calls, fault, rerun, prev>>

\* a membership test that compares the burst id alone
AlreadyProcessedByIdOnly(id_date, processed) ==
    \E k \in 1..Len(processed) : processed[k][1] = id_date[1]

\* `if id_date in id_dates_processed`: decides whether an iteration is skipped
AlreadyProcessed(id_date, processed) == InSeq(id_date, processed)

\* an iteration whose (burst_id, date) pair was processed before: the top
\* directory is ensured, then `continue`
Geo2rdrSkip ==
    /\ pc = "geo2rdr_loop"
    /\ idx <= Len(cfg.bursts)
    /\ LET burst == cfg.bursts[idx]
           top_output_path == <<cfg.scratch_path, burst.burst_id>>
           made == Makedirs(fs, top_output_path)
       IN /\ AlreadyProcessed(IdDate(burst), id_dates_processed)
          /\ fs' = made.fs
          /\ IF made.err = NoFault
             THEN /\ idx' = idx + 1
                  /\ UNCHANGED <<pc, fault>>
             ELSE /\ pc' = Raise(made.err).pc
                  /\ fault' = Raise(made.err).fault
                  /\ idx' = idx
    /\ UNCHANGED <<prodVars, entry, cfg, arg, id_dates_processed, outputs, calls, log,
                   rerun, prev>>

\* an iteration for a new pair: both directories are ensured, the Geo2Rdr
\* object is built and its geo2rdr method runs, and may raise
Geo2rdrBurst ==
    /\ pc = "geo2rdr_loop"
    /\ idx <= Len(cfg.bursts)
    /\ LET burst == cfg.bursts[idx]
           id_date == IdDate(burst)
           top_output_path == <<cfg.scratch_path, burst.burst_id>>
           burst_output_path == Append(top_output_path, DateStr(burst.sensing_start))
           made_top == Makedirs(fs, top_output_path)
           made == Makedirs(made_top.fs, burst_output_path)
       IN /\ ~AlreadyProcessed(id_date, id_dates_processed)
          /\ IF made_top.err # NoFault
             THEN /\ fs' = made_top.fs
                  /\ pc' = Raise(made_top.err).pc
                  /\ fault' = Raise(made_top.err).fault
                  /\ UNCHANGED <<idx, id_dates_processed, calls, outputs>>
             ELSE /\ id_dates_processed' = Append(id_dates_processed, id_date)
                  /\ fs' = made.fs
                  /\ IF made.err # NoFault
                     THEN /\ pc' = Raise(made.err).pc
                          /\ fault' = Raise(made.err).fault
                          /\ UNCHANGED <<idx, calls, outputs>>
                     ELSE /\ calls' = Append(calls,
                                 Call("Geo2Rdr.geo2rdr", id_date, NoPath,
                                      DirPath(burst_output_path),
                                      {"topo_raster", "burst_output_path"}))
                          /\ \E ok \in BOOLEAN :
                                IF ok
                                THEN /\ outputs' = outputs \cup
                                          {DirPath(burst_output_path)}
                                     /\ idx' = idx + 1
                                     /\ UNCHANGED <<pc, fault>>
                                ELSE /\ pc' = Raise("EngineError").pc
                                     /\ fault' = Raise("EngineError").fault
                                     /\ UNCHANGED <<idx, outputs>>
    /\ UNCHANGED <<prodVars, entry, cfg, arg, log, rerun, prev>>

\* after the loop: the success line; control returns to the caller
Geo2rdrFinish ==
    /\ pc = "geo2rdr_loop"
    /\ idx > Len(cfg.bursts)
    /\ log' = Append(log, "s1_geo2rdr burst successfully ran")
    /\ IF entry = "s1_cslc"
       THEN /\ calls' = Append(calls, StageCall("return s1_geo2rdr.run", {}))
            /\ pc' = "cslc_resample"
       ELSE /\ calls' = calls
            /\ pc' = "done"
    /\ UNCHANGED <<prodVars, entry, cfg, arg, idx, id_dates_processed, fs, outputs, fault,
                   rerun, prev>>

\* ------------------------------------------------------ s1_geocode_slc.run
\* def run(cfg, burst, fetch_from_scratch=False) of s1_geocode_metadata
MetadataRunParams ==
    [required |-> {"cfg", "burst"}, optional |-> {"fetch_from_scratch"}]

\* Python binds a call when every required parameter is supplied and every
\* supplied name is a parameter; otherwise the call raises TypeError
Binds(params, supplied) ==
    /\ params.required \subseteq supplied
    /\ supplied \subseteq params.required \cup params.optional

\* s1_geocode_metadata.run(cfg, fetch_from_scratch=True)
GeocodeSlcMetadataArgs == {"cfg", "fetch_from_scratch"}

\* the file stem with the polarization left out
IdPolWithoutPol(burst_id, pol) == burst_id

\* id_pol = f"{burst_id}_{pol}"
IdPol(burst_id, pol) == burst_id \o "_" \o pol

\* the input path with the corrected file never substituted
TempSlcPathUncorrected(phase_correction, temp_vrt, corrected) == temp_vrt

\* temp_slc_path after `if check_eap.phase_correction:`: the corrected file
\* replaces the temp VRT when the correction was applied
TempSlcPath(phase_correction, temp_vrt, corrected) ==
    IF phase_correction THEN corrected ELSE temp_vrt

\* the journal line and the common initialisations
GeocodeSlcStart ==
    /\ pc = "slc_run"
    /\ log' = Append(log, "Starting s1_geocode_slc burst")
    /\ idx' = 1
    /\ pc' = "slc_loop"
    /\ UNCHANGED <<prodVars, entry, cfg, arg, id_dates_processed, fs, outputs, calls,
                   fault, rerun, prev>>

\* one iteration of `for burst in cfg.bursts`, its statements in source order;
\* the topography stage and geocode_slc are engine runs and may raise
GeocodeSlcBurst ==
    /\ pc = "slc_loop"
    /\ idx <= Len(cfg.bursts)
    /\ \E topo_ok \in BOOLEAN, ok \in BOOLEAN :
       LET burst == cfg.bursts[idx]
           epsg == cfg.dem_epsg
           date_str == DateStr(burst.sensing_start)
           burst_id == burst.burst_id
           pol == burst.polarization
           id_pol == IdPol(burst_id, pol)
           id_date == <<burst_id, date_str>>
           geo_grid == cfg.geogrids[burst_id]
           burst_output_path == <<cfg.product_path, burst_id, date_str>>
           made_out == Makedirs(fs, burst_output_path)
           scratch_path == <<cfg.scratch_path, burst_id, date_str>>
           made == Makedirs(made_out.fs, scratch_path)
           mkdir_err == IF made_out.err # NoFault THEN made_out.err ELSE made.err
           \* if cfg.rdr2geo_params.enabled: s1_rdr2geo.run(cfg, save_in_scratch=True)
           enabled == cfg.rdr2geo_params.enabled
           topo_calls ==
               IF enabled
               THEN <<Call("s1_rdr2geo.run", id_date, NoPath, NoPath,
                           {"cfg", "save_in_scratch"})>>
               ELSE <<>>
           \* if cfg.rdr2geo_params.geocode_metadata_layers: s1_geocode_metadata.run(...)
           meta_called ==
               enabled /\ topo_ok /\ cfg.rdr2geo_params.geocode_metadata_layers
           meta_calls ==
               IF meta_called
               THEN <<Call("s1_geocode_metadata.run", id_date, NoPath, NoPath,
                           GeocodeSlcMetadataArgs)>>
               ELSE <<>>
           nested_err ==
               IF enabled /\ ~topo_ok THEN "EngineError"
               ELSE IF meta_called /\ ~Binds(MetadataRunParams, GeocodeSlcMetadataArgs)
                    THEN "TypeError"
                    ELSE NoFault
           \* burst.slc_to_vrt_file(temp_slc_path)
           temp_vrt == FilePath(scratch_path, id_pol, "_temp.vrt")
           \* temp_slc_path.replace('_temp.vrt', '_corrected_temp.rdr')
           temp_slc_path_corrected == [temp_vrt EXCEPT !.ext = "_corrected_temp.rdr"]
           temp_slc_path ==
               TempSlcPath(arg.phase_correction, temp_vrt, temp_slc_path_corrected)
           eap_calls ==
               IF arg.phase_correction
               THEN <<Call("apply_eap_correction", id_date, temp_vrt,
                           temp_slc_path_corrected, {"burst", "check_eap"})>>
               ELSE <<>>
           open_call ==
               IF cfg.split_spectrum_params.enabled
               THEN Call("range_split_spectrum", id_date, temp_slc_path,
                         DirPath(scratch_path), {"burst", "split_spectrum_params"})
               ELSE Call("isce3.io.Raster", id_date, temp_slc_path, NoPath, {})
           rdr_burst_raster == open_call.fn
           slc_path == FilePath(burst_output_path, id_pol, ".slc")
           json_path == FilePath(burst_output_path, id_pol, ".json")
           geotransform == <<geo_grid.start_x, geo_grid.spacing_x, 0,
                             geo_grid.start_y, 0, geo_grid.spacing_y>>
           upto_nested == calls \o topo_calls \o meta_calls
           upto_geocode ==
               upto_nested
               \o <<Call("burst.slc_to_vrt_file", id_date, NoPath, temp_vrt, {})>>
               \o eap_calls
               \o <<open_call,
                    Call("isce3.geocode.geocode_slc", id_date, temp_slc_path, slc_path,
                         {rdr_burst_raster})>>
           written == {temp_vrt, slc_path}
                      \cup (IF arg.phase_correction THEN {temp_slc_path_corrected} ELSE {})
       IN /\ fs' = made.fs
          /\ IF mkdir_err # NoFault
             THEN /\ pc' = Raise(mkdir_err).pc
                  /\ fault' = Raise(mkdir_err).fault
                  /\ UNCHANGED <<idx, calls, outputs, rasters>>
             ELSE IF nested_err # NoFault
             THEN /\ calls' = upto_nested
                  /\ pc' = Raise(nested_err).pc
                  /\ fault' = Raise(nested_err).fault
                  /\ UNCHANGED <<idx, outputs, rasters>>
             ELSE IF ~ok
             THEN /\ calls' = upto_geocode
                  /\ outputs' = outputs \cup written
                  /\ pc' = Raise("EngineError").pc
                  /\ fault' = Raise("EngineError").fault
                  /\ UNCHANGED <<idx, rasters>>
             ELSE /\ calls' = upto_geocode
                       \o <<Call("set_geotransform", id_date, NoPath, slc_path, {}),
                            Call("set_epsg", id_date, NoPath, slc_path, {}),
                            Call("metadata.to_file", id_date, NoPath, json_path, {})>>
                  /\ outputs' = outputs \cup written \cup {json_path}
                  /\ rasters' = rasters \cup
                        {[path |-> slc_path, width |-> geo_grid.width,
                          length |-> geo_grid.length, geotransform |-> geotransform,
                          epsg |-> epsg]}
                  /\ idx' = idx + 1
                  /\ UNCHANGED <<pc, fault>>
    /\ UNCHANGED <<entry, cfg, arg, id_dates_processed, log, rerun, prev, h5, geo, ret>>

\* after the loop: the success line
GeocodeSlcFinish ==
    /\ pc = "slc_loop"
    /\ idx > Len(cfg.bursts)
    /\ log' = Append(log, "s1_geocode_slc burst successfully ran")
    /\ pc' = "done"
    /\ UNCHANGED <<prodVars, entry, cfg, arg, idx, id_dates_processed, fs, outputs,
                   calls, fault, rerun, prev>>

\* ------------------------------------------------- s1_geocode_metadata.run
\* cfg.output_paths[(burst_id, date_str)]: the product and scratch directory
\* of a (burst id, date) pair
OutputPaths(c, burst_id_date_key) ==
    [output_directory |-> <<c.product_path>> \o burst_id_date_key,
     scratch_directory |-> <<c.scratch_path>> \o burst_id_date_key]

\* dtype of a layer's dataset: np.single, np.byte for layover_shadow_mask
LayerDtype(layer_name) ==
    IF layer_name = "layover_shadow_mask" THEN "byte" ELSE "single"

\* an interpolator that is switched before the first layer
LayerInterpolatorAlwaysNearest(layer_name, current) == "NEAREST"

\* geo.data_interpolator after the `if layer_name == 'layover_shadow_mask'`
LayerInterpolator(layer_name, current) ==
    IF layer_name = "layover_shadow_mask" THEN "NEAREST" ELSE current

\* the call run(...) and, when it binds, the body up to the layer loop: the
\* geocode object gets the burst's geogrid and topo.h5 is opened with 'w'
GeocodeMetadataCall ==
    /\ pc = "meta_call"
    /\ calls' = Append(calls, StageCall("s1_geocode_metadata.run", arg.supplied))
    /\ IF Binds(MetadataRunParams, arg.supplied)
       THEN LET burst_id == arg.burst.burst_id
                geo_grid == cfg.geogrids[burst_id]
            IN /\ log' = Append(log, "Starting s1_geocode_metadata burst")
               /\ geo' = [data_interpolator |-> "default", geogrid |-> geo_grid]
               /\ h5' = {}
               /\ idx' = 1
               /\ pc' = "meta_layers"
               /\ fault' = fault
       ELSE /\ pc' = Raise("TypeError").pc
            /\ fault' = Raise("TypeError").fault
            /\ UNCHANGED <<log, geo, h5, idx>>
    /\ UNCHANGED <<entry, cfg, arg, id_dates_processed, fs, outputs, rerun, prev,
                   rasters, ret>>

\* `if not enabled: continue`
GeocodeMetadataSkipLayer ==
    /\ pc = "meta_layers"
    /\ idx <= Len(MetaLayerNames)
    /\ MetaLayerNames[idx] \notin cfg.rdr2geo_params.compute
    /\ idx' = idx + 1
    /\ UNCHANGED <<prodVars, entry, cfg, arg, pc, id_dates_processed, fs, outputs,
                   calls, log, fault, rerun, prev>>

\* one enabled layer: its dataset is created in topo.h5, the layer is
\* geocoded (the engine may raise), geotransform and EPSG are set
GeocodeMetadataLayer ==
    /\ pc = "meta_layers"
    /\ idx <= Len(MetaLayerNames)
    /\ MetaLayerNames[idx] \in cfg.rdr2geo_params.compute
    /\ \E ok \in BOOLEAN :
       LET layer_name == MetaLayerNames[idx]
           burst == arg.burst
           burst_id == burst.burst_id
           geo_grid == cfg.geogrids[burst_id]
           output_epsg == geo_grid.epsg
           burst_id_date_key == <<burst_id, DateStr(burst.sensing_start)>>
           out_paths == OutputPaths(cfg, burst_id_date_key)
           input_path == IF arg.fetch_from_scratch
                         THEN out_paths.scratch_directory
                         ELSE out_paths.output_directory
           out_h5 == FilePath(out_paths.output_directory, "topo", ".h5")
           dtype == LayerDtype(layer_name)
           interpolator == LayerInterpolator(layer_name, geo.data_interpolator)
           geotransform == <<geo_grid.start_x, geo_grid.spacing_x, 0,
                             geo_grid.start_y, 0, geo_grid.spacing_y>>
           topo_ds == [file |-> out_h5, name |-> layer_name, dtype |-> dtype,
                       shape |-> <<geo_grid.length, geo_grid.width>>]
       IN /\ geo' = [geo EXCEPT !.data_interpolator = interpolator]
          /\ h5' = h5 \cup {topo_ds}
          /\ outputs' = outputs \cup {out_h5}
          /\ calls' = Append(calls,
                Call("geo.geocode", burst_id_date_key,
                     FilePath(input_path, layer_name, ".rdr"), out_h5,
                     {layer_name, interpolator, dtype}))
          /\ IF ok
             THEN /\ rasters' = rasters \cup
                        {[path |-> out_h5, name |-> layer_name, dtype |-> dtype,
                          interpolator |-> interpolator,
                          geotransform |-> geotransform, epsg |-> output_epsg]}
                  /\ idx' = idx + 1
                  /\ UNCHANGED <<pc, fault>>
             ELSE /\ pc' = Raise("EngineError").pc
                  /\ fault' = Raise("EngineError").fault
                  /\ UNCHANGED <<idx, rasters>>
    /\ UNCHANGED <<entry, cfg, arg, id_dates_processed, fs, log, rerun, prev, ret>>

\* after the loop: topo.h5 is closed and the success line is logged
GeocodeMetadataFinish ==
    /\ pc = "meta_layers"
    /\ idx > Len(MetaLayerNames)
    /\ log' = Append(log, "s1_geocode_metadata burst successfully ran")
    /\ pc' = "done"
    /\ UNCHANGED <<prodVars, entry, cfg, arg, idx, id_dates_processed, fs, outputs,
                   calls, fault, rerun, prev>>

\* ------------------------------------------------------------ geocode_luts
\* h5_helpers.ROOT_PATH, imported; its value is not read here
RootPath == "ROOT_PATH"

\* geo_grid.width // dec_factor + 1 and the other arguments of the new
\* GeoGridParameters
DecimatedGeogrid(geo_grid, dec_factor) ==
    [start_x |-> geo_grid.start_x,
     start_y |-> geo_grid.start_y,
     spacing_x |-> geo_grid.spacing_x * dec_factor,
     spacing_y |-> geo_grid.spacing_y * dec_factor,
     width |-> (geo_grid.width \div dec_factor) + 1,
     length |-> (geo_grid.length \div dec_factor) + 1,
     epsg |-> geo_grid.epsg]

\* decimation written back into the configured grid object
GeocodeLutsGridsInPlace(geogrids, burst_id, dec_factor) ==
    [geogrids |-> [geogrids EXCEPT
                      ![burst_id] = DecimatedGeogrid(geogrids[burst_id], dec_factor)],
     decimated_geogrid |-> DecimatedGeogrid(geogrids[burst_id], dec_factor)]

\* geo_grid = cfg.geogrids[burst_id]; decimated_geogrid = GeoGridParameters(...):
\* the configured grids and the new grid object after these statements
GeocodeLutsGrids(geogrids, burst_id, dec_factor) ==
    [geogrids |-> geogrids,
     decimated_geogrid |-> DecimatedGeogrid(geogrids[burst_id], dec_factor)]

\* a Python one-element tuple; `type` is what a callee's argument check sees
PyTuple1(v) == [type |-> "tuple", value |-> v]

\* lut_path = f'{scratch_path}/{item_name}_radargrid.rdr',
\* the trailing comma makes the value a one-element tuple
LutPath(scratch_path, item_name) ==
    PyTuple1(FilePath(scratch_path, item_name, "_radargrid.rdr"))

\* gdal Driver.Create and isce3.io.Raster take the path as a string
AcceptsPath(p) == p.type = "str"

\* item_dict and destination group, then geocode_luts(...)
GeocodeCalibrationLuts ==
    /\ pc = "luts_call"
    /\ entry = "geocode_calibration_luts"
    /\ arg' = [arg EXCEPT
                 !.dst_group_path = RootPath \o "/metadata/calibration_information",
                 !.item_dict = <<"gamma", "sigma_naught", "dn">>]
    /\ calls' = Append(calls, StageCall("geocode_luts",
                    {"geo_burst_h5", "burst", "cfg", "dst_group_path", "item_dict",
                     "dec_factor"}))
    /\ pc' = "geocode_luts"
    /\ UNCHANGED <<prodVars, entry, cfg, idx, id_dates_processed, fs, outputs, log,
                   fault, rerun, prev>>

GeocodeNoiseLuts ==
    /\ pc = "luts_call"
    /\ entry = "geocode_noise_luts"
    /\ arg' = [arg EXCEPT
                 !.dst_group_path = RootPath \o "/metadata/noise_information",
                 !.item_dict = <<"thermal_noise_lut">>]
    /\ calls' = Append(calls, StageCall("geocode_luts",
                    {"geo_burst_h5", "burst", "cfg", "dst_group_path", "item_dict",
                     "dec_factor"}))
    /\ pc' = "geocode_luts"
    /\ UNCHANGED <<prodVars, entry, cfg, idx, id_dates_processed, fs, outputs, log,
                   fault, rerun, prev>>

\* the body of geocode_luts before its loop: the decimated grid is built and
\* given to a new geocode object
GeocodeLutsSetup ==
    /\ pc = "geocode_luts"
    /\ LET burst_id == arg.burst.burst_id
           grids == GeocodeLutsGrids(cfg.geogrids, burst_id, arg.dec_factor)
       IN /\ cfg' = [cfg EXCEPT !.geogrids = grids.geogrids]
          /\ geo' = [data_interpolator |-> "default",
                     geogrid |-> grids.decimated_geogrid]
    /\ idx' = 1
    /\ pc' = "geocode_luts_loop"
    /\ UNCHANGED <<entry, arg, id_dates_processed, fs, outputs, calls, log, fault,
                   rerun, prev, rasters, h5, ret>>

\* one iteration of `for item_name, _ in item_dict.items()`: the dataset is
\* initialised on the decimated grid, then the radar-grid LUT raster is
\* created at lut_path, geocoded, and tagged
GeocodeLutsItem ==
    /\ pc = "geocode_luts_loop"
    /\ idx <= Len(arg.item_dict)
    /\ \E ok \in BOOLEAN :
       LET item_name == arg.item_dict[idx]
           burst == arg.burst
           burst_id_date_key == <<burst.burst_id, DateStr(burst.sensing_start)>>
           out_paths == OutputPaths(cfg, burst_id_date_key)
           scratch_path == out_paths.scratch_directory
           epsg == cfg.dem_epsg
           decimated_geogrid == geo.geogrid
           dst_dataset == [file |-> arg.dst_group_path, name |-> item_name,
                           dtype |-> "float32",
                           shape |-> <<decimated_geogrid.length,
                                       decimated_geogrid.width>>]
           lut_path == LutPath(scratch_path, item_name)
           geotransform == <<decimated_geogrid.start_x, decimated_geogrid.spacing_x, 0,
                             decimated_geogrid.start_y, 0, decimated_geogrid.spacing_y>>
       IN /\ h5' = h5 \cup {dst_dataset}
          /\ IF ~AcceptsPath(lut_path)
             THEN /\ calls' = Append(calls,
                        Call("gdal_envi_driver.Create", burst_id_date_key, NoPath,
                             lut_path.value, {lut_path.type}))
                  /\ pc' = Raise("TypeError").pc
                  /\ fault' = Raise("TypeError").fault
                  /\ UNCHANGED <<idx, outputs, rasters>>
             ELSE /\ calls' = calls
                        \o <<Call("gdal_envi_driver.Create", burst_id_date_key, NoPath,
                                  lut_path.value, {lut_path.type}),
                             Call("geocode_obj.geocode", burst_id_date_key,
                                  lut_path.value, NoPath, {item_name})>>
                  /\ outputs' = outputs \cup {lut_path.value}
                  /\ IF ok
                     THEN /\ rasters' = rasters \cup
                                {[path |-> NoPath, name |-> item_name,
                                  dtype |-> "float32", interpolator |-> geo.data_interpolator,
                                  geotransform |-> geotransform, epsg |-> epsg]}
                          /\ idx' = idx + 1
                          /\ pc' = IF idx + 1 > Len(arg.item_dict)
                                   THEN "done" ELSE pc
                          /\ fault' = fault
                     ELSE /\ pc' = Raise("EngineError").pc
                          /\ fault' = Raise("EngineError").fault
                          /\ UNCHANGED <<idx, rasters>>
    /\ UNCHANGED <<entry, cfg, arg, id_dates_processed, fs, log, rerun, prev, geo, ret>>

\* ---------------------------------------- compute_geocoding_correction_luts
\* os.path.exists(dem_path)
PathExists(path) == path \in ExistingFiles

\* the condition of the statement that raises FileNotFoundError
RaisesFileNotFound(dem_path) == PathExists(dem_path)

\* isce3.core.LUT2d(xstart, ystart, dx, dy, data)
LUT2d(x_start, y_start, x_spacing, y_spacing, data) ==
    [x_start |-> x_start, y_start |-> y_start,
     x_spacing |-> x_spacing, y_spacing |-> y_spacing, data |-> data]

\* az_lut.data + az_fm_mismatch.data, element by element
AddData(a, b) == [k \in 1..Len(a) |-> a[k] + b[k]]

\* the arguments the code passes to LUT2d for the returned azimuth LUT
AzimuthLut(az_lut, az_fm_mismatch) ==
    LUT2d(az_lut.x_start,
          az_lut.y_start,
          az_lut.x_spacing,
          az_lut.x_spacing,
          AddData(az_lut.data, az_fm_mismatch.data))

\* the function body: the two burst LUTs, the dem_path checks, the FM-rate
\* mismatch (a burst-reader call that may raise) and the returned pair
ComputeGeocodingCorrectionLuts ==
    /\ pc = "lut_call"
    /\ \E ok \in BOOLEAN :
       LET az_lut == arg.bistatic_delay
           rg_lut == arg.geometrical_and_steering_doppler
           dem_path == arg.dem_path
           first == calls \o <<StageCall("burst.bistatic_delay", {"range_step", "az_step"}),
                               StageCall("burst.geometrical_and_steering_doppler",
                                         {"range_step", "az_step"})>>
       IN IF dem_path = None
          THEN /\ calls' = first
               /\ pc' = Raise("ValueError").pc
               /\ fault' = Raise("ValueError").fault
               /\ ret' = ret
          ELSE IF RaisesFileNotFound(dem_path)
          THEN /\ calls' = first
               /\ pc' = Raise("FileNotFoundError").pc
               /\ fault' = Raise("FileNotFoundError").fault
               /\ ret' = ret
          ELSE /\ calls' = Append(first,
                     StageCall("burst.az_fm_rate_mismatch_mitigation",
                               {dem_path, "scratch_path", "rangeg_step", "az_step"}))
               /\ IF ok
                  THEN /\ ret' = <<rg_lut, AzimuthLut(az_lut, arg.az_fm_mismatch)>>
                       /\ pc' = "done"
                       /\ fault' = fault
                  ELSE /\ pc' = Raise("EngineError").pc
                       /\ fault' = Raise("EngineError").fault
                       /\ ret' = ret
    /\ UNCHANGED <<entry, cfg, arg, idx, id_dates_processed, fs, outputs, log, rerun,
                   prev, rasters, h5, geo>>

\* ------------------------------------------------------------- second run
\* the same command is started again on the same run configuration
Rerun ==
    /\ pc = "done"
    /\ ~rerun
    /\ entry \in {"s1_geo2rdr", "s1_geocode_slc"}
    /\ rerun' = TRUE
    /\ prev' = [fs |-> fs, outputs |-> outputs]
    /\ pc' = IF entry = "s1_geo2rdr" THEN "geo2rdr_run" ELSE "slc_run"
    /\ rasters' = {}
    /\ idx' = 1
    /\ outputs' = {}
    /\ calls' = <<>>
    /\ log' = <<>>
    /\ UNCHANGED <<entry, cfg, arg, id_dates_processed, fs, fault, h5, geo, ret>>

Next ==
    \/ CslcReference
    \/ CslcSecondary
    \/ CslcResample
    \/ Geo2rdrStart
    \/ Geo2rdrSkip
    \/ Geo2rdrBurst
    \/ Geo2rdrFinish
    \/ GeocodeSlcStart
    \/ GeocodeSlcBurst
    \/ GeocodeSlcFinish
    \/ GeocodeMetadataCall
    \/ GeocodeMetadataSkipLayer
    \/ GeocodeMetadataLayer
    \/ GeocodeMetadataFinish
    \/ GeocodeCalibrationLuts
    \/ GeocodeNoiseLuts
    \/ GeocodeLutsSetup
    \/ GeocodeLutsItem
    \/ ComputeGeocodingCorrectionLuts
    \/ Rerun

Spec == Init /\ [][Next]_vars

\* =================================================================== claims
\* the calls made to one callee, in order
CallsTo(fn) == SelectSeq(calls, LAMBDA c : c.fn = fn)

\* positions of the calls to one callee in the trace
PositionsOf(fn) == {k \in 1..Len(calls) : calls[k].fn = fn}

SuccessLines ==
    {"s1_geo2rdr burst successfully ran", "s1_geocode_slc burst successfully ran",
     "s1_geocode_metadata burst successfully ran"}

LoggedSuccess == \E k \in 1..Len(log) : log[k] \in SuccessLines

\* C1: in s1_cslc.run a reference configuration invokes the topography stage
\* exactly once and never coregistration or resampling; a secondary
\* configuration invokes s1_geo2rdr.run first, s1_resample.run only after
\* s1_geo2rdr.run has returned, each at most once, and never the topography
\* stage; a completed secondary run has invoked both.
C1_WorkflowDispatch ==
    entry = "s1_cslc" =>
        /\ cfg.is_reference =>
              /\ PositionsOf("s1_geo2rdr.run") = {}
              /\ PositionsOf("Geo2Rdr.geo2rdr") = {}
              /\ PositionsOf("s1_resample.run") = {}
              /\ pc # "cslc_run" => Cardinality(PositionsOf("s1_rdr2geo.run")) = 1
        /\ ~cfg.is_reference =>
              /\ PositionsOf("s1_rdr2geo.run") = {}
              /\ pc # "cslc_run" => PositionsOf("s1_geo2rdr.run") = {1}
              /\ \A k \in PositionsOf("s1_resample.run") :
                    \E j \in PositionsOf("return s1_geo2rdr.run") : j < k
              /\ Cardinality(PositionsOf("s1_resample.run")) <= 1
              /\ pc = "done" => Cardinality(PositionsOf("s1_resample.run")) = 1

\* C1 witness: a secondary run over a burst list completed, coregistration
\* and then resampling having run
C1_Witness ==
    /\ entry = "s1_cslc"
    /\ ~cfg.is_reference
    /\ pc = "done"
    /\ Len(cfg.bursts) = MaxBursts
    /\ PositionsOf("Geo2Rdr.geo2rdr") # {}
    /\ PositionsOf("s1_resample.run") = {Len(calls)}

\* the (burst_id, date) pairs of a burst list, in list order
PairsOf(bursts) == [k \in 1..Len(bursts) |-> IdDate(bursts[k])]

\* a sequence with the later duplicates of each element removed
RECURSIVE FirstOccurrences(_)
FirstOccurrences(seq) ==
    IF seq = <<>> THEN <<>>
    ELSE LET front == SubSeq(seq, 1, Len(seq) - 1)
             last == seq[Len(seq)]
         IN IF InSeq(last, front)
            THEN FirstOccurrences(front)
            ELSE Append(FirstOccurrences(front), last)

\* the pairs the geo2rdr engine was invoked for, in order
Geo2rdrEnginePairs ==
    LET runs == CallsTo("Geo2Rdr.geo2rdr")
    IN [k \in 1..Len(runs) |-> runs[k].id_date]

\* C2: in s1_geo2rdr.run the engine is invoked once per distinct
\* (burst_id, date) pair: after i iterations the invocations are the first i
\* bursts' pairs with later duplicates removed, in order of first occurrence,
\* after the loop those of the whole list, and after an engine fault in
\* iteration i those of the first i bursts.
C2_Geo2rdrOncePerPair ==
    entry \in {"s1_geo2rdr", "s1_cslc"} =>
        /\ pc = "geo2rdr_loop" =>
              Geo2rdrEnginePairs =
                  FirstOccurrences(PairsOf(SubSeq(cfg.bursts, 1, idx - 1)))
        /\ (pc \in {"cslc_resample", "done"} /\ ~cfg.is_reference) =>
              Geo2rdrEnginePairs = FirstOccurrences(PairsOf(cfg.bursts))
        /\ (pc = "raised" /\ Len(calls) \in PositionsOf("Geo2Rdr.geo2rdr")) =>
              Geo2rdrEnginePairs =
                  FirstOccurrences(PairsOf(SubSeq(cfg.bursts, 1, idx)))

\* C2 witness: a completed run over two bursts of one (burst_id, date) pair
\* and different polarizations, the engine invoked once
C2_Witness ==
    /\ entry = "s1_geo2rdr"
    /\ pc = "done"
    /\ Len(cfg.bursts) = 2
    /\ cfg.bursts[1].polarization # cfg.bursts[2].polarization
    /\ IdDate(cfg.bursts[1]) = IdDate(cfg.bursts[2])
    /\ Len(Geo2rdrEnginePairs) = 1

\* how often one callee was invoked from the iterations of one pair
TimesInvoked(fn, id_date) ==
    Cardinality({k \in PositionsOf(fn) : calls[k].id_date = id_date})

\* C3: during one s1_geocode_slc.run the nested topography stage and the
\* nested metadata geocoding stage are each invoked at most once per
\* (burst_id, date) pair, also when several bursts share the pair.
C3_StagesOncePerPair ==
    entry = "s1_geocode_slc" =>
        \A k \in 1..Len(cfg.bursts) :
            /\ TimesInvoked("s1_rdr2geo.run", IdDate(cfg.bursts[k])) <= 1
            /\ TimesInvoked("s1_geocode_metadata.run", IdDate(cfg.bursts[k])) <= 1

\* directories s1_geo2rdr.run must leave behind for a burst list
Geo2rdrDirs(bursts) ==
    UNION {{<<ScratchRoot, bursts[k].burst_id>>,
            <<ScratchRoot, bursts[k].burst_id, bursts[k].sensing_start.date>>}
           : k \in 1..Len(bursts)}

\* directories s1_geocode_slc.run must leave behind for a burst list
GeocodeSlcDirs(bursts) ==
    UNION {{<<ScratchRoot, bursts[k].burst_id>>,
            <<ScratchRoot, bursts[k].burst_id, bursts[k].sensing_start.date>>,
            <<ProductRoot, bursts[k].burst_id>>,
            <<ProductRoot, bursts[k].burst_id, bursts[k].sensing_start.date>>}
           : k \in 1..Len(bursts)}

\* C4: directory creation is idempotent in s1_geo2rdr.run and
\* s1_geocode_slc.run: from any prior directory state no run ends with
\* FileExistsError; after each iteration and after a completed run every
\* scratch (and product) directory of the bursts processed so far exists
\* ('<root>/<burst_id>' and '<root>/<burst_id>/<date>'); a directory present when the
\* first run completed is still present afterwards, so it is created at most
\* once; and a completed second run leaves the set of directories as the
\* first run left it.
C4_DirectoriesIdempotent ==
    entry \in {"s1_geo2rdr", "s1_geocode_slc"} =>
        /\ fault # "FileExistsError"
        /\ pc = "done" =>
              IF entry = "s1_geo2rdr"
              THEN Geo2rdrDirs(cfg.bursts) \subseteq fs
              ELSE GeocodeSlcDirs(cfg.bursts) \subseteq fs
        /\ pc = "geo2rdr_loop" => Geo2rdrDirs(SubSeq(cfg.bursts, 1, idx - 1)) \subseteq fs
        /\ pc = "slc_loop" => GeocodeSlcDirs(SubSeq(cfg.bursts, 1, idx - 1)) \subseteq fs
        /\ rerun => prev.fs \subseteq fs
        /\ (rerun /\ pc = "done") => fs = prev.fs

\* C4 witness: a second run over a full burst list completed, every
\* directory having existed before it started
C4_Witness ==
    /\ entry = "s1_geocode_slc"
    /\ rerun
    /\ pc = "done"
    /\ Len(cfg.bursts) = MaxBursts
    /\ GeocodeSlcDirs(cfg.bursts) \subseteq prev.fs

\* the three output paths of one burst, from the configured roots and the
\* burst's id, sensing date and polarization alone
BurstOutputPaths(c, b) ==
    LET stem == b.burst_id \o "_" \o b.polarization
        product_dir == <<c.product_path, b.burst_id, b.sensing_start.date>>
        scratch_dir == <<c.scratch_path, b.burst_id, b.sensing_start.date>>
    IN {FilePath(product_dir, stem, ".slc"),
        FilePath(product_dir, stem, ".json"),
        FilePath(scratch_dir, stem, "_temp.vrt")}

NamedOutputs == {o \in outputs : o.ext \in {".slc", ".json", "_temp.vrt"}}

\* C5: output paths are deterministic. A completed s1_geocode_slc.run has
\* written exactly the .slc, .json and _temp.vrt path of each burst, each a
\* function of product_path/scratch_path, burst_id, sensing date and
\* polarization; a completed s1_geo2rdr.run has written to exactly the
\* '<scratch>/<burst_id>/<date>' directory of each burst; and a second run on
\* the same configuration, started from the directories the first run left,
\* produces the same set of paths as the first.
C5_OutputPathsDeterministic ==
    /\ (entry = "s1_geocode_slc" /\ pc = "done") =>
          /\ NamedOutputs =
                UNION {BurstOutputPaths(cfg, cfg.bursts[k]) : k \in 1..Len(cfg.bursts)}
          /\ rerun => outputs = prev.outputs
    /\ (entry = "s1_geo2rdr" /\ pc = "done") =>
          /\ outputs =
                {DirPath(<<cfg.scratch_path, cfg.bursts[k].burst_id,
                           cfg.bursts[k].sensing_start.date>>)
                 : k \in 1..Len(cfg.bursts)}
          /\ rerun => outputs = prev.outputs

\* C5 witness: a second s1_geocode_slc.run over two bursts that differ only
\* in polarization completed with its outputs written
C5_Witness ==
    /\ entry = "s1_geocode_slc"
    /\ rerun
    /\ pc = "done"
    /\ Len(cfg.bursts) >= 2
    /\ cfg.bursts[1].polarization # cfg.bursts[2].polarization
    /\ IdDate(cfg.bursts[1]) = IdDate(cfg.bursts[2])
    /\ Cardinality(NamedOutputs) = 6

\* the engine call of each list-driven stage
EngineOf(e) ==
    IF e = "s1_geocode_slc" THEN "isce3.geocode.geocode_slc" ELSE "Geo2Rdr.geo2rdr"

\* C6: an engine fault is fatal and is not retried. In s1_geo2rdr.run and
\* s1_geocode_slc.run, once the engine call of iteration i has raised, the run
\* has ended with that fault, the faulting call is the last call made, the
\* engine was invoked at most once in each of the iterations 1..i and never
\* for a later burst, and the success line was not logged; in no state is a
\* fault recorded while the run is still going or completed.
C6_FatalPropagation ==
    /\ fault # NoFault <=> pc = "raised"
    /\ (fault # NoFault /\ (entry # "s1_cslc" \/ calls[Len(calls)].fn = "Geo2Rdr.geo2rdr"))
          => ~LoggedSuccess
    /\ (entry \in {"s1_geo2rdr", "s1_geocode_slc"} /\ fault = "EngineError"
        /\ calls[Len(calls)].fn = EngineOf(entry)) =>
          /\ idx <= Len(cfg.bursts)
          /\ calls[Len(calls)].id_date = IdDate(cfg.bursts[idx])
          /\ Len(CallsTo(EngineOf(entry))) <= idx
          /\ \A k \in 1..Len(calls) :
                calls[k].id_date \in
                    {IdDate(cfg.bursts[j]) : j \in 1..idx} \cup {<<>>}
          /\ entry = "s1_geocode_slc" => Len(CallsTo(EngineOf(entry))) = idx

\* C6 witness: the engine raised in the second iteration of
\* s1_geocode_slc.run, after the first burst was geocoded
C6_Witness ==
    /\ entry = "s1_geocode_slc"
    /\ fault = "EngineError"
    /\ pc = "raised"
    /\ idx = 2
    /\ Len(cfg.bursts) = 2
    /\ calls[Len(calls)].fn = "isce3.geocode.geocode_slc"
    /\ Len(CallsTo("isce3.geocode.geocode_slc")) = 2

\* C7: every invocation of s1_geocode_metadata.run made by the repository
\* (its command line, and s1_geocode_slc.run) supplies the required
\* parameters cfg and burst, so no such invocation ends in TypeError.
C7_MetadataRunInvocable ==
    entry \in {"s1_geocode_metadata.__main__", "s1_geocode_slc"} =>
        /\ \A k \in PositionsOf("s1_geocode_metadata.run") :
              {"cfg", "burst"} \subseteq calls[k].args
        /\ fault # "TypeError"

\* C8: no step of s1_geocode_metadata.run, geocode_luts (any dec_factor) or
\* s1_geocode_slc.run, nor of any other stage, changes a field of
\* cfg.geogrids; the decimated grid is a separate object.
C8_GeoGridNeverMutated == [][cfg'.geogrids = cfg.geogrids]_vars

\* C8 witness: geocode_luts has built a decimated grid, with a decimation
\* factor above one, that differs from the configured grid of the burst
C8_Witness ==
    /\ entry \in {"geocode_calibration_luts", "geocode_noise_luts"}
    /\ pc = "geocode_luts_loop"
    /\ arg.dec_factor > 1
    /\ geo.geogrid # cfg.geogrids[arg.burst.burst_id]
    /\ geo.geogrid.spacing_x =
          cfg.geogrids[arg.burst.burst_id].spacing_x * arg.dec_factor

\* C9: compute_geocoding_correction_luts raises ValueError when dem_path is
\* None, FileNotFoundError when dem_path names no existing file, and for an
\* existing file raises neither and calls the azimuth FM-rate-mismatch
\* computation with that path.
C9_DemPathValidation ==
    (entry = "compute_geocoding_correction_luts" /\ pc # "lut_call") =>
        /\ arg.dem_path = None => fault = "ValueError"
        /\ (arg.dem_path # None /\ arg.dem_path \notin ExistingFiles) =>
              fault = "FileNotFoundError"
        /\ (arg.dem_path # None /\ arg.dem_path \in ExistingFiles) =>
              /\ fault \notin {"ValueError", "FileNotFoundError"}
              /\ \E k \in PositionsOf("burst.az_fm_rate_mismatch_mitigation") :
                    arg.dem_path \in calls[k].args

\* C10: the returned azimuth LUT has the bistatic-delay LUT's x_start,
\* y_start, x_spacing and y_spacing and the element-wise sum of the
\* bistatic-delay and FM-rate-mismatch data; the returned range LUT is the
\* geometrical-and-steering-Doppler LUT unchanged.
C10_AzimuthLutOnBistaticGrid ==
    (entry = "compute_geocoding_correction_luts" /\ ret # <<>>) =>
        /\ ret[1] = arg.geometrical_and_steering_doppler
        /\ ret[2].x_start = arg.bistatic_delay.x_start
        /\ ret[2].y_start = arg.bistatic_delay.y_start
        /\ ret[2].x_spacing = arg.bistatic_delay.x_spacing
        /\ ret[2].y_spacing = arg.bistatic_delay.y_spacing
        /\ \A k \in 1..LutLen :
              ret[2].data[k] = arg.bistatic_delay.data[k] + arg.az_fm_mismatch.data[k]

\* the layers whose compute_* flag is set, in the order meta_layers holds them
EnabledLayers ==
    SelectSeq(MetaLayerNames, LAMBDA n : n \in cfg.rdr2geo_params.compute)

\* the layer names of the geo.geocode calls made so far, in order
GeocodedLayers ==
    [k \in 1..Len(CallsTo("geo.geocode")) |-> CallsTo("geo.geocode")[k].src.name]

\* C11: in s1_geocode_metadata.run the layers geocoded so far are the first
\* of the enabled layers, each once and in meta_layers order, and a completed
\* run has geocoded all of them; the datasets of topo.h5 are exactly the
\* layers geocoded, so a disabled layer is neither created nor geocoded;
\* layover_shadow_mask is geocoded with NEAREST into a byte dataset, every
\* other layer with the interpolator not yet switched into a float32 dataset.
C11_MetadataLayers ==
    entry = "s1_geocode_metadata.run" =>
        /\ Len(GeocodedLayers) <= Len(EnabledLayers)
        /\ GeocodedLayers = SubSeq(EnabledLayers, 1, Len(GeocodedLayers))
        /\ pc = "done" => GeocodedLayers = EnabledLayers
        /\ {d.name : d \in h5} = {GeocodedLayers[k] : k \in 1..Len(GeocodedLayers)}
        /\ Cardinality(h5) = Len(GeocodedLayers)
        /\ \A d \in h5 :
              /\ d.file.name = "topo" /\ d.file.ext = ".h5"
              /\ d.dtype = IF d.name = "layover_shadow_mask" THEN "byte" ELSE "single"
        /\ \A k \in PositionsOf("geo.geocode") :
              IF calls[k].src.name = "layover_shadow_mask"
              THEN calls[k].args = {"layover_shadow_mask", "NEAREST", "byte"}
              ELSE /\ "NEAREST" \notin calls[k].args
                   /\ "single" \in calls[k].args
        /\ \A r \in rasters :
              r.interpolator = "NEAREST" <=> r.name = "layover_shadow_mask"

\* a completed run with the mask and two other layers enabled, others disabled
C11_Witness ==
    /\ entry = "s1_geocode_metadata.run"
    /\ pc = "done"
    /\ cfg.rdr2geo_params.compute = {"x", "heading", "layover_shadow_mask"}
    /\ Len(CallsTo("geo.geocode")) = 3
    /\ \E r \in rasters : r.name = "layover_shadow_mask" /\ r.dtype = "byte"

\* the burst a geocoded raster belongs to: the burst directory of its path,
\* or the burst argument of the single-burst LUT entry points
RasterBurstId(r) == IF r.path = NoPath THEN arg.burst.burst_id ELSE r.path.dir[2]

\* C12: every geocoded raster (topo.h5 layer, LUT dataset, geocoded SLC) is
\* tagged with the EPSG code of the GeoGrid of its burst, whatever the EPSG
\* code of the DEM is.
C12_OutputsTaggedWithGeoGridEpsg ==
    \A r \in rasters : r.epsg = cfg.geogrids[RasterBurstId(r)].epsg

\* the per-burst steps of s1_geocode_slc.run named by C13
SlcStepFns ==
    {"burst.slc_to_vrt_file", "apply_eap_correction", "range_split_spectrum",
     "isce3.io.Raster", "isce3.geocode.geocode_slc", "set_geotransform", "set_epsg",
     "metadata.to_file"}

\* the file stem a step works on: that of its input, or of its output when
\* it has no input file
StepStem(c) == IF c.src = NoPath THEN c.out.name ELSE c.src.name

\* the steps taken so far, each with the burst and file stem it worked on
SlcSteps ==
    LET steps == SelectSeq(calls, LAMBDA c : c.fn \in SlcStepFns)
    IN [k \in 1..Len(steps) |-> <<steps[k].fn, steps[k].id_date, StepStem(steps[k])>>]

\* the steps C13 prescribes for one burst, in order
StepsOfBurst(b) ==
    LET stem == b.burst_id \o "_" \o b.polarization
        fns == <<"burst.slc_to_vrt_file">>
               \o (IF arg.phase_correction THEN <<"apply_eap_correction">> ELSE <<>>)
               \o <<IF cfg.split_spectrum_params.enabled
                     THEN "range_split_spectrum" ELSE "isce3.io.Raster">>
               \o <<"isce3.geocode.geocode_slc", "set_geotransform", "set_epsg",
                     "metadata.to_file">>
    IN [k \in 1..Len(fns) |-> <<fns[k], <<b.burst_id, b.sensing_start.date>>, stem>>]

RECURSIVE StepsOfBursts(_)
\* the steps of the first n bursts of cfg.bursts, burst after burst
StepsOfBursts(n) ==
    IF n = 0 THEN <<>> ELSE StepsOfBursts(n - 1) \o StepsOfBurst(cfg.bursts[n])

\* C13: the steps of s1_geocode_slc.run are, burst after burst in list order,
\* temp VRT, EAP correction if phase_correction, split-spectrum if enabled
\* (else the file is opened directly), geocode_slc, geotransform, EPSG, JSON;
\* a burst's steps are complete before the next burst's begin, and an
\* exception leaves at most the failing burst's steps up to geocode_slc.
\* geocode_slc reads the EAP-corrected file exactly when phase_correction,
\* through the split-spectrum output exactly when split-spectrum is enabled.
C13_StepOrderAndInputs ==
    (entry = "s1_geocode_slc" /\ pc # "slc_run") =>
        /\ \/ SlcSteps = StepsOfBursts(idx - 1)
           \/ /\ pc = "raised"
              /\ \E n \in 1..Len(StepsOfBurst(cfg.bursts[idx])) :
                    /\ StepsOfBurst(cfg.bursts[idx])[n][1] = "isce3.geocode.geocode_slc"
                    /\ SlcSteps = StepsOfBursts(idx - 1)
                                  \o SubSeq(StepsOfBurst(cfg.bursts[idx]), 1, n)
        /\ \A k \in PositionsOf("isce3.geocode.geocode_slc") :
              /\ calls[k].src.ext =
                    IF arg.phase_correction THEN "_corrected_temp.rdr" ELSE "_temp.vrt"
              /\ calls[k].args =
                    {IF cfg.split_spectrum_params.enabled
                     THEN "range_split_spectrum" ELSE "isce3.io.Raster"}
              /\ calls[k - 1].fn \in calls[k].args
              /\ calls[k - 1].src = calls[k].src
              /\ arg.phase_correction =>
                    /\ calls[k - 2].fn = "apply_eap_correction"
                    /\ calls[k - 2].out = calls[k].src
                    /\ calls[k - 2].src = calls[k - 3].out
              /\ ~arg.phase_correction => calls[k - 1].src = calls[k - 2].out

\* a completed run over two different bursts with the EAP correction applied
\* and split-spectrum enabled
C13_Witness ==
    /\ entry = "s1_geocode_slc"
    /\ pc = "done"
    /\ Len(cfg.bursts) = 2
    /\ cfg.bursts[1].burst_id # cfg.bursts[2].burst_id
    /\ arg.phase_correction
    /\ cfg.split_spectrum_params.enabled
    /\ Len(SlcSteps) = 14
    /\ SlcSteps[7][1] = "metadata.to_file"
    /\ SlcSteps[8][1] = "burst.slc_to_vrt_file"

Abs(n) == IF n < 0 THEN -n ELSE n

\* the item names of the LUT entry point's item_dict
LutItems == {arg.item_dict[k] : k \in 1..Len(arg.item_dict)}

\* the decimated grid of C14 for the burst's configured grid
LutGridDecimated ==
    LET geo_grid == cfg.geogrids[arg.burst.burst_id]
        d == arg.dec_factor
        dec == geo.geogrid
    IN /\ dec.start_x = geo_grid.start_x
       /\ dec.start_y = geo_grid.start_y
       /\ dec.epsg = geo_grid.epsg
       /\ dec.spacing_x = geo_grid.spacing_x * d
       /\ dec.spacing_y = geo_grid.spacing_y * d
       /\ dec.width = (geo_grid.width \div d) + 1
       /\ dec.length = (geo_grid.length \div d) + 1
       /\ Abs(dec.width * dec.spacing_x) >= Abs(geo_grid.width * geo_grid.spacing_x)
       /\ Abs(dec.length * dec.spacing_y) >= Abs(geo_grid.length * geo_grid.spacing_y)

\* C14: in geocode_luts the decimated geogrid keeps start_x, start_y and
\* epsg, multiplies both spacings by dec_factor, has width // dec_factor + 1
\* columns and length // dec_factor + 1 rows, and covers at least the extent
\* of the original grid in each axis; every dataset is created on that grid
\* in the destination group, and once the item loop has ended, other than by
\* an exception of the geocoding engine, there is one dataset per item.
C14_DecimatedLutGrid ==
    (/\ entry \in {"geocode_calibration_luts", "geocode_noise_luts"}
     /\ pc \in {"geocode_luts_loop", "done", "raised"}) =>
        /\ LutGridDecimated
        /\ \A ds \in h5 :
              /\ ds.file = arg.dst_group_path
              /\ ds.name \in LutItems
              /\ ds.shape = <<geo.geogrid.length, geo.geogrid.width>>
        /\ pc \in {"done", "raised"} =>
              \/ fault = "EngineError"
              \/ {ds.name : ds \in h5} = LutItems

====
